---- MODULE Spec2Model ----
(***************************************************************************)
(* Geometry pipeline of the .radarloc generator:                           *)
(*   radarloc_generator/coordinate_transform.py  latlon_to_xy              *)
(*   radarloc_generator/osm_query.py             _douglas_peucker,         *)
(*                                               _assemble_multipolygon,   *)
(*                                               query_water_features      *)
(*   radarloc_generator/radarloc_builder.py      validate_radarloc         *)
(*                                                                         *)
(* Units.  A plane point is a pair <<x, y>> of whole numbers of 2 cm, a     *)
(* geographic coordinate a whole number of steps of 2e-6 degree; tolerances*)
(* and radii are in the plane unit.  A feature's emitted coordinates, which*)
(* the code rounds to 0.1 m, are whole decimetres.  Distances are compared *)
(* through their squares, kept as exact fractions, where the code compares *)
(* floating-point square roots.  Documents handed to validate_radarloc on  *)
(* its own (SpecVal) carry whole metres.                                   *)
(***************************************************************************)
EXTENDS Integers, Sequences, FiniteSets, TLC

VARIABLES
    \* _douglas_peucker called on its own
    points, epsilon, simplified, resimplified, dpc,
    \* _assemble_multipolygon: its arguments ...
    way_segments, center_lat, center_lon, nodes, simplify_epsilon,
    \* ... and its locals
    segments, used, ring_points, current_end, start_node, attempts, assembled, apc,
    \* query_water_features: the parsed response, the radius, and its locals
    \* (center_lat, center_lon, nodes and simplify_epsilon are those above)
    data, radius_m, way_data, relation_way_ids, results, rel_idx, way_idx, qpc,
    \* validate_radarloc
    doc, result, vpc

dpVars == <<points, epsilon, simplified, resimplified, dpc>>
asmArgs == <<way_segments, center_lat, center_lon, nodes, simplify_epsilon>>
asmLocals == <<segments, used, ring_points, current_end, start_node, attempts, assembled, apc>>
asmVars == <<asmArgs, asmLocals>>
qVars == <<data, radius_m, way_data, relation_way_ids, results, rel_idx, way_idx, qpc>>
valVars == <<doc, result, vpc>>
vars == <<dpVars, asmVars, qVars, valVars>>

(***************************************************************************)
(* Bounds of the model.                                                    *)
(***************************************************************************)
MaxLen == 5          \* longest polyline handed to _douglas_peucker on its own
MaxEps == 2          \* largest tolerance handed to _douglas_peucker on its own

\* The plane points the polylines of SpecDP are drawn from: collinear points,
\* points off the line, and (by repetition) zero-length chords.
DPPoints == { <<0, 0>>, <<2, 0>>, <<4, 0>>, <<1, 1>>, <<2, 3>> }

SeqsUpTo(S, n) == UNION { [1..k -> S] : k \in 0..n }

(***************************************************************************)
(* Helpers for Python sequences.                                           *)
(***************************************************************************)
Last(s) == s[Len(s)]
Front(s) == SubSeq(s, 1, Len(s) - 1)
Reverse(s) == [i \in 1..Len(s) |-> s[Len(s) + 1 - i]]
Abs(n) == IF n < 0 THEN -n ELSE n

(***************************************************************************)
(* _douglas_peucker, lines 22-40: the distance of points[i] from the chord *)
(* start-end.  With L = line_len_sq, the code computes                     *)
(*    t = clamp((p . d) / L, 0, 1) when L > 0, projection 0 otherwise,     *)
(*    dist = sqrt(|p - t d|^2).                                            *)
(* ChordDen is the denominator of dist^2 as a fraction (L, or 1 for a      *)
(* zero-length chord) and ChordDistNum its numerator, so that points of    *)
(* one chord compare by their numerators.                                  *)
(***************************************************************************)
ChordDen(start, end) ==
    LET dx == end[1] - start[1]
        dy == end[2] - start[2]
        line_len_sq == dx * dx + dy * dy
    IN  IF line_len_sq > 0 THEN line_len_sq ELSE 1

\* The distance from the infinite line through the chord: no clamping of t.
ChordDistNumUnclamped(p, start, end) ==
    LET dx == end[1] - start[1]
        dy == end[2] - start[2]
        line_len_sq == dx * dx + dy * dy
        px == p[1] - start[1]
        py == p[2] - start[2]
        dot == px * dx + py * dy
    IN  IF line_len_sq > 0
        THEN (px * px + py * py) * line_len_sq - dot * dot
        ELSE px * px + py * py

ChordDistNum(p, start, end) ==
    LET dx == end[1] - start[1]
        dy == end[2] - start[2]
        line_len_sq == dx * dx + dy * dy
        px == p[1] - start[1]
        py == p[2] - start[2]
        dot == px * dx + py * dy
    IN  IF line_len_sq > 0
        THEN IF dot <= 0
             THEN (px * px + py * py) * line_len_sq                    \* t = 0.0
             ELSE IF dot >= line_len_sq
                  THEN ((px - dx) * (px - dx) + (py - dy) * (py - dy)) * line_len_sq  \* t = 1.0
                  ELSE (px * px + py * py) * line_len_sq - dot * dot   \* 0 < t < 1
        ELSE px * px + py * py                                         \* proj = (0, 0)

\* Lines 24-40: max_dist (as the numerator of its square) over the interior points.
MaxDistNum(pts) ==
    LET nums == { ChordDistNum(pts[i], pts[1], Last(pts)) : i \in 2..(Len(pts) - 1) } \cup {0}
    IN  CHOOSE m \in nums : \A k \in nums : k <= m

\* Lines 24-40: max_idx, the first interior index whose distance is the strict
\* maximum; it stays at the code's initial 0 (here 1) when every distance is 0.
MaxIdx(pts) ==
    LET m == MaxDistNum(pts)
        hits == { i \in 2..(Len(pts) - 1) : ChordDistNum(pts[i], pts[1], Last(pts)) = m }
    IN  IF m = 0 THEN 1 ELSE CHOOSE i \in hits : \A j \in hits : i <= j

\* Line 42: max_dist > epsilon.
ExceedsEpsilon(pts, eps) ==
    MaxDistNum(pts) > eps * eps * ChordDen(pts[1], Last(pts))

\* Line 45: left[:-1] + right.
JoinKeepingSplitTwice(left, right) == left \o right

JoinHalves(left, right) == Front(left) \o right

\* Line 47: [start, end].
CollapseToFirstTwo(pts) == <<pts[1], pts[2]>>

Collapse(pts) == <<pts[1], Last(pts)>>

RECURSIVE _douglas_peucker(_, _)
_douglas_peucker(pts, eps) ==
    IF Len(pts) <= 2
    THEN pts
    ELSE IF ExceedsEpsilon(pts, eps)
         THEN LET max_idx == MaxIdx(pts)
                  left == _douglas_peucker(SubSeq(pts, 1, max_idx), eps)
                  right == _douglas_peucker(SubSeq(pts, max_idx, Len(pts)), eps)
              IN  JoinHalves(left, right)
         ELSE Collapse(pts)

(***************************************************************************)
(* SpecDP: _douglas_peucker on every polyline of at most MaxLen points of  *)
(* DPPoints and every tolerance 1..MaxEps, then on its own result.         *)
(***************************************************************************)
DPIdle ==
    /\ points = <<>>
    /\ epsilon = 1
    /\ simplified = <<>>
    /\ resimplified = <<>>
    /\ dpc = "idle"

AsmIdle ==
    /\ way_segments = <<>>
    /\ center_lat = 0
    /\ center_lon = 0
    /\ nodes = <<>>
    /\ simplify_epsilon = 1
    /\ segments = <<>>
    /\ used = {}
    /\ ring_points = <<>>
    /\ current_end = 0
    /\ start_node = 0
    /\ attempts = 0
    /\ assembled = <<>>
    /\ apc = "idle"

QueryIdle ==
    /\ data = <<>>
    /\ radius_m = 0
    /\ way_data = <<>>
    /\ relation_way_ids = {}
    /\ results = <<>>
    /\ rel_idx = 0
    /\ way_idx = 0
    /\ qpc = "idle"

ValIdle ==
    /\ doc = <<>>
    /\ result = <<>>
    /\ vpc = "idle"

InitDP ==
    /\ points \in SeqsUpTo(DPPoints, MaxLen)
    /\ epsilon \in 1..MaxEps
    /\ simplified = <<>>
    /\ resimplified = <<>>
    /\ dpc = "call"
    /\ AsmIdle
    /\ QueryIdle
    /\ ValIdle

Simplify ==
    /\ dpc = "call"
    /\ simplified' = _douglas_peucker(points, epsilon)
    /\ dpc' = "simplified"
    /\ UNCHANGED <<points, epsilon, resimplified, asmVars, qVars, valVars>>

SimplifyAgain ==
    /\ dpc = "simplified"
    /\ resimplified' = _douglas_peucker(simplified, epsilon)
    /\ dpc' = "resimplified"
    /\ UNCHANGED <<points, epsilon, simplified, asmVars, qVars, valVars>>

NextDP == Simplify \/ SimplifyAgain

SpecDP == InitDP /\ [][NextDP]_vars

(***************************************************************************)
(* Properties of _douglas_peucker (SpecDP).                                *)
(***************************************************************************)
Range(s) == { s[i] : i \in 1..Len(s) }

RECURSIVE IsSubsequence(_, _)
IsSubsequence(a, b) ==
    IF a = <<>> THEN TRUE
    ELSE IF b = <<>> THEN FALSE
    ELSE IF a[1] = b[1] THEN IsSubsequence(Tail(a), Tail(b))
    ELSE IsSubsequence(a, Tail(b))

\* C5: the output of _douglas_peucker is a subsequence of its input, its first
\* and last elements are the input's first and last points, and an input of
\* length 0, 1 or 2 is returned unchanged.
C5_SubsequenceKeepingEnds ==
    dpc # "call" =>
        /\ IsSubsequence(simplified, points)
        /\ Len(points) >= 1 =>
              /\ Len(simplified) >= 1
              /\ simplified[1] = points[1]
              /\ Last(simplified) = Last(points)
        /\ Len(points) <= 2 => simplified = points

\* C5's case: a polyline of which interior points are both kept and dropped.
C5_Witness ==
    /\ dpc = "simplified"
    /\ Len(simplified) >= 3
    /\ Len(simplified) < Len(points)

\* The squared distance of p from the segment a-b (clamped to the segment) is at
\* most eps squared.  Written from the geometry, not from the code's loop.
WithinOfSegment(p, a, b, eps) ==
    LET ux == b[1] - a[1]
        uy == b[2] - a[2]
        wx == p[1] - a[1]
        wy == p[2] - a[2]
        uu == ux * ux + uy * uy
        wu == wx * ux + wy * uy
    IN  IF uu = 0 \/ wu <= 0
        THEN wx * wx + wy * wy <= eps * eps
        ELSE IF wu >= uu
             THEN (p[1] - b[1]) * (p[1] - b[1]) + (p[2] - b[2]) * (p[2] - b[2]) <= eps * eps
             ELSE (wx * wx + wy * wy) * uu - wu * wu <= eps * eps * uu

WithinOfPolyline(p, line, eps) ==
    \E j \in 1..(Len(line) - 1) : WithinOfSegment(p, line[j], line[j + 1], eps)

\* C6: every input point that _douglas_peucker discards lies within epsilon of
\* the simplified polyline (nearest output segment, clamped to its extent),
\* also when the chord between the first and last point has zero length.
C6_DiscardedWithinEpsilon ==
    dpc # "call" =>
        \A i \in 1..Len(points) :
            points[i] \notin Range(simplified) =>
                WithinOfPolyline(points[i], simplified, epsilon)

\* C6's case: a zero-length chord, and a point off it that is discarded.
C6_Witness ==
    /\ dpc = "simplified"
    /\ Len(points) >= 3
    /\ points[1] = Last(points)
    /\ \E i \in 1..Len(points) :
          /\ points[i] \notin Range(simplified)
          /\ WithinOfPolyline(points[i], simplified, epsilon)

\* C7: _douglas_peucker is idempotent: simplifying the simplified polyline with
\* the same epsilon returns it unchanged.
C7_Idempotent ==
    dpc = "resimplified" => resimplified = simplified

\* C7's case: a second pass over a result that kept interior points.
C7_Witness ==
    /\ dpc = "resimplified"
    /\ Len(simplified) >= 3
    /\ Len(simplified) < Len(points)

(***************************************************************************)
(* coordinate_transform.py.  111132.954 m per degree is 11.11 plane units  *)
(* (2 cm) per geographic step (2e-6 degree), taken as 11.                  *)
(***************************************************************************)
METERS_PER_DEGREE == 11

\* math.cos(math.radians(origin_lat)) as a fraction <<numerator, denominator>>:
\* every origin of the model lies at 60 degrees north to within 1e-4 degree.
Cosine(origin_lat) == <<1, 2>>

latlon_to_xy(lat, lon, origin_lat, origin_lon) ==
    LET c == Cosine(origin_lat)
    IN  << ((lon - origin_lon) * METERS_PER_DEGREE * c[1]) \div c[2],
           (lat - origin_lat) * METERS_PER_DEGREE >>

(***************************************************************************)
(* The geography of the model: nodes on and around a square of 44 x 44     *)
(* plane units (A B C D), E inside it, F on the side A-B, and G H I far    *)
(* away.  A node is <<lat, lon>>.  Node id 9 is referenced by some ways    *)
(* and is in no node set.                                                  *)
(***************************************************************************)
GeoPoint(dlat, dlon) == <<30000000 + dlat, 5000000 + dlon>>

NodeTable ==
    (1 :> GeoPoint(0, 0))   @@ (2 :> GeoPoint(0, 8))    @@ (3 :> GeoPoint(4, 8)) @@
    (4 :> GeoPoint(4, 0))   @@ (5 :> GeoPoint(2, 4))    @@ (6 :> GeoPoint(0, 4)) @@
    (7 :> GeoPoint(10, 20)) @@ (8 :> GeoPoint(10, 24))  @@ (10 :> GeoPoint(12, 24))

Centers == { GeoPoint(0, 0), GeoPoint(2, 4) }
SimplifyEpsilons == { 5, 50 }

(***************************************************************************)
(* _assemble_multipolygon, lines 59-81: way segments to segments.          *)
(***************************************************************************)
\* Lines 67-72: the plane points of the node ids that are in `nodes`.
ProjectNodes(way_nodes, nds, olat, olon) ==
    LET present == SelectSeq(way_nodes, LAMBDA nid : nid \in DOMAIN nds)
    IN  [i \in 1..Len(present) |->
            latlon_to_xy(nds[present[i]][1], nds[present[i]][2], olat, olon)]

\* Lines 64-78: the segment of one way, or none.
SegmentsOfWay(way, nds, olat, olon) ==
    LET way_nodes == way[2]
        pts == ProjectNodes(way_nodes, nds, olat, olon)
    IN  IF Len(way_nodes) < 2 \/ Len(pts) < 2
        THEN <<>>
        ELSE << [start_node |-> way_nodes[1],
                 end_node |-> Last(way_nodes),
                 points |-> pts] >>

RECURSIVE ConvertSegments(_, _, _, _)
ConvertSegments(ways, nds, olat, olon) ==
    IF ways = <<>>
    THEN <<>>
    ELSE SegmentsOfWay(ways[1], nds, olat, olon)
             \o ConvertSegments(Tail(ways), nds, olat, olon)

\* Lines 59-81.
AsmConvert ==
    /\ apc = "convert"
    /\ LET segs == ConvertSegments(way_segments, nodes, center_lat, center_lon)
       IN  /\ segments' = segs
           /\ apc' = IF segs = <<>> THEN "done" ELSE "start"
    /\ used' = {}
    /\ assembled' = <<>>
    /\ UNCHANGED <<ring_points, current_end, start_node, attempts>>
    /\ UNCHANGED <<asmArgs, dpVars, qVars, valVars>>

\* Lines 90-96: the first unused segment.
FirstUnused(segs, usedSet) ==
    CHOOSE i \in 1..Len(segs) :
        /\ i \notin usedSet
        /\ \A j \in 1..(i - 1) : j \in usedSet

\* Lines 87-96: start a new ring.
AsmStartRing ==
    /\ apc = "start"
    /\ LET i == FirstUnused(segments, used)
       IN  /\ ring_points' = segments[i].points
           /\ current_end' = segments[i].end_node
           /\ start_node' = segments[i].start_node
           /\ used' = used \cup {i}
    /\ attempts' = 0
    /\ apc' = "extend"
    /\ UNCHANGED <<segments, assembled>>
    /\ UNCHANGED <<asmArgs, dpVars, qVars, valVars>>

\* Lines 102-111 alone: only the segments that start at the trailing node.
ConnectingForwardOnly(segs, usedSet, endNode) ==
    { i \in 1..Len(segs) : i \notin usedSet /\ segs[i].start_node = endNode }

\* Lines 102-118 without the test of line 103: a segment already used
\* connects again.
ConnectingIgnoringUsed(segs, usedSet, endNode) ==
    { i \in 1..Len(segs) : segs[i].start_node = endNode \/ segs[i].end_node = endNode }

\* Lines 102-118: the unused segments that connect to the ring's trailing node.
Connecting(segs, usedSet, endNode) ==
    { i \in 1..Len(segs) :
        /\ i \notin usedSet
        /\ (segs[i].start_node = endNode \/ segs[i].end_node = endNode) }

\* Line 107, with the slice [:-1] of line 114 in place of [1:]: the shared
\* endpoint is appended again and the segment's far end is lost.
ExtendForwardDroppingFar(ring, seg) == ring \o Front(seg.points)

\* Line 107: ring_points.extend(seg['points'][1:]).
ExtendForward(ring, seg) == ring \o Tail(seg.points)

\* Line 114, with the slice [1:] of line 107 in place of [:-1]: the shared
\* endpoint is appended again and the segment's far end is lost.
ExtendReversedDroppingFar(ring, seg) == ring \o Reverse(Tail(seg.points))

\* Line 114: ring_points.extend(reversed(seg['points'][:-1])).
ExtendReversed(ring, seg) == ring \o Reverse(Front(seg.points))

\* Line 99.
MaxIterations(segs) == Len(segs) * 2

\* Lines 100-121: one pass of the extension loop.
AsmExtend ==
    /\ apc = "extend"
    /\ attempts < MaxIterations(segments)
    /\ LET cands == Connecting(segments, used, current_end)
           found == cands # {}
           i == CHOOSE c \in cands : \A d \in cands : c <= d
           forward == segments[i].start_node = current_end
           new_end == IF ~found THEN current_end
                      ELSE IF forward THEN segments[i].end_node
                      ELSE segments[i].start_node
       IN  /\ ring_points' = IF ~found THEN ring_points
                             ELSE IF forward THEN ExtendForward(ring_points, segments[i])
                             ELSE ExtendReversed(ring_points, segments[i])
           /\ current_end' = new_end
           /\ used' = IF found THEN used \cup {i} ELSE used
           /\ attempts' = attempts + 1
           /\ apc' = IF ~found \/ new_end = start_node
                        \/ attempts + 1 >= MaxIterations(segments)
                     THEN "finish" ELSE "extend"
    /\ UNCHANGED <<segments, start_node, assembled>>
    /\ UNCHANGED <<asmArgs, dpVars, qVars, valVars>>

\* Line 124, with the node comparison left out.
IsClosedByLength(endNode, startNode, ring) == Len(ring) >= 3

\* Line 124: is_closed.
IsClosed(endNode, startNode, ring) == endNode = startNode /\ Len(ring) >= 3

\* Line 128: len(simplified) >= 3.
KeepRing(simple) == Len(simple) >= 3

\* Lines 123-129, and the loop test of line 87.
AsmFinishRing ==
    /\ apc = "finish"
    /\ LET is_closed == IsClosed(current_end, start_node, ring_points)
           simple == _douglas_peucker(ring_points, simplify_epsilon)
       IN  assembled' = IF KeepRing(simple)
                        THEN Append(assembled, <<simple, is_closed>>)
                        ELSE assembled
    /\ apc' = IF Cardinality(used) < Len(segments) THEN "start" ELSE "done"
    /\ UNCHANGED <<segments, used, ring_points, current_end, start_node, attempts>>
    /\ UNCHANGED <<asmArgs, dpVars, qVars, valVars>>

(***************************************************************************)
(* SpecAsm: _assemble_multipolygon on its own.  Its way segments are the   *)
(* four sides of the square A B C D in every order and direction, or any   *)
(* sequence of at most MaxSegs of the ways of AsmWays.                     *)
(***************************************************************************)
MaxSegs == 3

SquareSides == { <<11, <<1, 2>>>>, <<12, <<2, 3>>>>, <<13, <<3, 4>>>>, <<14, <<4, 1>>>> }

EitherDirection(ways) == ways \cup { <<w[1], Reverse(w[2])>> : w \in ways }

SquareInputs ==
    { s \in [1..4 -> EitherDirection(SquareSides)] :
        \A i, j \in 1..4 : i # j => s[i][1] # s[j][1] }

AsmWays ==
    { <<21, <<1, 2>>>>,             \* A-B
      <<22, <<2, 3>>>>,             \* B-C
      <<23, <<1, 3>>>>,             \* A-C, against the direction of travel
      <<24, <<1, 5, 4, 1>>>>,       \* a way that is a loop at A
      <<25, <<1, 6, 2>>>>,          \* A-F-B, collinear
      <<26, <<2, 5, 3, 4, 1>>>>,    \* B-E-C-D-A
      <<27, <<4, 1>>>>,             \* D-A: a third way at A
      <<28, <<1, 9, 2>>>>,          \* A-B through a node that is missing
      <<29, <<9, 2, 3>>>>,          \* starts at a node that is missing
      <<30, <<1>>>> }               \* a single node

InitAsm ==
    /\ DPIdle
    /\ QueryIdle
    /\ ValIdle
    /\ way_segments \in SquareInputs \cup SeqsUpTo(AsmWays, MaxSegs)
    /\ \E c \in Centers : center_lat = c[1] /\ center_lon = c[2]
    /\ nodes = NodeTable
    /\ simplify_epsilon \in SimplifyEpsilons
    /\ segments = <<>>
    /\ used = {}
    /\ ring_points = <<>>
    /\ current_end = 0
    /\ start_node = 0
    /\ attempts = 0
    /\ assembled = <<>>
    /\ apc = "convert"

NextAsm == AsmConvert \/ AsmStartRing \/ AsmExtend \/ AsmFinishRing

SpecAsm == InitAsm /\ [][NextAsm]_vars

(***************************************************************************)
(* Properties of _assemble_multipolygon (SpecAsm).                         *)
(***************************************************************************)
PlanePointOf(nid) ==
    latlon_to_xy(nodes[nid][1], nodes[nid][2], center_lat, center_lon)

SquareCorners == { PlanePointOf(nid) : nid \in 1..4 }

\* The tolerance is smaller than the square's deviations: every corner is
\* farther than the tolerance from the diagonal through its two neighbours.
SquareToleranceSmall ==
    \A k \in 1..4 :
        ~WithinOfSegment(PlanePointOf(k), PlanePointOf((k % 4) + 1),
                         PlanePointOf(((k + 2) % 4) + 1), simplify_epsilon)

\* C3: the four sides of a square, in any order and each in either direction,
\* with a tolerance smaller than the square's deviations, assemble into exactly
\* one ring, closed, whose points are the 4 distinct corners followed by the
\* starting corner again.
C3_SquareAssembles ==
    (apc = "done" /\ way_segments \in SquareInputs /\ SquareToleranceSmall) =>
        /\ Len(assembled) = 1
        /\ assembled[1][2] = TRUE
        /\ LET ring == assembled[1][1]
           IN  /\ Len(ring) = 5
               /\ ring[5] = ring[1]
               /\ { ring[i] : i \in 1..4 } = SquareCorners
               /\ \A i, j \in 1..4 : i # j => ring[i] # ring[j]

\* C3's case: the sides out of order, the second and third stored backwards.
C3_Witness ==
    /\ apc = "done"
    /\ way_segments = << <<13, <<3, 4>>>>, <<11, <<2, 1>>>>, <<14, <<1, 4>>>>, <<12, <<2, 3>>>> >>
    /\ SquareToleranceSmall
    /\ Len(assembled) = 1

\* A single way segment from A to B, two distinct nodes, of which at least two
\* nodes are known (so that it is a segment).
SingleOpenSegment ==
    /\ apc # "idle"
    /\ Len(way_segments) = 1
    /\ Len(way_segments[1][2]) >= 2
    /\ way_segments[1][2][1] # Last(way_segments[1][2])
    /\ Len(ProjectNodes(way_segments[1][2], nodes, center_lat, center_lon)) >= 2

SingleSegmentSimplified ==
    _douglas_peucker(ProjectNodes(way_segments[1][2], nodes, center_lat, center_lon),
                     simplify_epsilon)

\* C4 as stated: a single segment A to B with no connecting segment gives a
\* result that contains a ring for it with closed = false.
C4_AsStated ==
    (apc = "done" /\ SingleOpenSegment) =>
        \E i \in 1..Len(assembled) : assembled[i][2] = FALSE

\* C4, amended: for a single segment A to B (A # B) _assemble_multipolygon runs
\* to its end without failing; its result holds no closed ring and at most one
\* ring; the ring is there, with closed = false and the simplified points of
\* the segment, exactly when the simplification keeps at least 3 points.
C4_SingleSegmentOpenOrDropped ==
    SingleOpenSegment =>
        /\ apc # "done" => ENABLED (AsmConvert \/ AsmStartRing \/ AsmExtend \/ AsmFinishRing)
        /\ apc = "done" =>
              /\ Len(assembled) <= 1
              /\ \A i \in 1..Len(assembled) : assembled[i][2] = FALSE
              /\ Len(assembled) = 1 <=> Len(SingleSegmentSimplified) >= 3
              /\ Len(assembled) = 1 => assembled[1][1] = SingleSegmentSimplified

\* C4's case: one open way of five points that survives the simplification.
C4_Witness ==
    /\ apc = "done"
    /\ SingleOpenSegment
    /\ Len(assembled) = 1
    /\ assembled[1][2] = FALSE

\* C11: a ring stops being extended as soon as its trailing node equals its
\* own starting node: while a ring under extension has current_end equal to
\* start_node, no step appends a point to it or consumes a segment for it;
\* this covers the ring started from a segment that is itself a loop.
C11_ClosedRingNotExtended ==
    [][ (apc = "extend" /\ current_end = start_node)
            => (ring_points' = ring_points /\ used' = used) ]_vars

\* The steps the assembly can still take from the current state, at most:
\* a ring costs its start, at most 2n passes of the extension loop and its
\* finish, and every pass that finds a segment leaves one ring fewer to start.
StepsLeft ==
    LET n == Len(segments)
        unused == n - Cardinality(used)
        ring == 2 * n + 2
        w == Len(way_segments)
    IN  CASE apc = "convert" -> w * (2 * w + 2) + 1
          [] apc = "start"   -> unused * ring
          [] apc = "extend"  -> unused * ring + (2 * n - attempts) + 1
          [] apc = "finish"  -> unused * ring + 1
          [] OTHER           -> 0

\* Short of its return the assembly can take a step: a ring is started only
\* while a segment is unused, and the extension loop is entered only while
\* attempts remain (converting and finishing are always possible).
CanStep ==
    /\ apc = "start" => Cardinality(used) < Len(segments)
    /\ apc = "extend" => attempts < 2 * Len(segments)

\* C12: for every collection of segments (dangling segments, nodes shared by
\* three or more segments, loops and duplicates among them) the assembly
\* terminates: short of its return a step is always possible, and every step
\* lowers a bound that is never negative.  When it has returned, every
\* segment is consumed; a segment is consumed once, by the one ring that
\* takes it: each step that starts or lengthens a ring takes exactly one
\* segment that was unused, and no segment is released.  The extension
\* attempts for one ring never exceed twice the segment count.
C12_TerminatesConsumingEachOnce ==
    /\ []CanStep
    /\ [](StepsLeft >= 0)
    /\ [][ StepsLeft' < StepsLeft ]_vars
    /\ [](apc = "done" => used = 1..Len(segments))
    /\ [](attempts <= 2 * Len(segments))
    /\ [][ used' # used =>
             \E i \in 1..Len(segments') : i \notin used /\ used' = used \cup {i} ]_vars
    /\ [][ ring_points' # ring_points => used' # used ]_vars

\* C12's case: a loop at A, and A-B twice, so that three segments meet at A;
\* the assembly has returned with all three consumed.
C12_Witness ==
    /\ apc = "done"
    /\ way_segments = << <<21, <<1, 2>>>>, <<24, <<1, 5, 4, 1>>>>, <<21, <<1, 2>>>> >>
    /\ Len(segments) = 3
    /\ used = {1, 2, 3}

(***************************************************************************)
(* query_water_features, lines 171-269, on a parsed Overpass response      *)
(* `data`: a sequence of elements, each a record with a "type".  A Python  *)
(* dict is a function; dict.get(key, default) is Get.                      *)
(***************************************************************************)
Get(d, key, default) == IF key \in DOMAIN d THEN d[key] ELSE default

None == "None"

\* Lines 172-175: the node lookup.
NodeLookup(elements) ==
    LET idx == { i \in 1..Len(elements) : elements[i].type = "node" }
        ids == { elements[i].id : i \in idx }
    IN  [nid \in ids |->
            LET last == CHOOSE i \in idx :
                            /\ elements[i].id = nid
                            /\ \A j \in idx : elements[j].id = nid => j <= i
            IN  <<elements[last].lat, elements[last].lon>>]

\* Lines 178-184: the way lookup, a dict in insertion order: a sequence of
\* records [id, nodes, tags], one per way id, at the place of the id's first
\* element and with the value of its last.
RECURSIVE WayLookup(_, _)
WayLookup(elements, acc) ==
    IF elements = <<>>
    THEN acc
    ELSE LET el == elements[1]
             entry == [id |-> el.id, nodes |-> el.nodes, tags |-> Get(el, "tags", <<>>)]
             at == { i \in 1..Len(acc) : acc[i].id = el.id }
         IN  IF el.type = "way" /\ "nodes" \in DOMAIN el
             THEN IF at = {}
                  THEN WayLookup(Tail(elements), Append(acc, entry))
                  ELSE WayLookup(Tail(elements),
                                 [acc EXCEPT ![CHOOSE i \in at : TRUE] = entry])
             ELSE WayLookup(Tail(elements), acc)

WayIds(wd) == { wd[i].id : i \in 1..Len(wd) }
WayOf(wd, id) == wd[CHOOSE i \in 1..Len(wd) : wd[i].id = id]

Relations(elements) == SelectSeq(elements, LAMBDA el : el.type = "relation")

\* After the relation at place k: the next relation, the standalone ways, or
\* the return.
AfterRelation(k, elements, wd) ==
    IF k < Len(Relations(elements)) THEN "relations"
    ELSE IF wd # <<>> THEN "ways"
    ELSE "done"

\* Lines 171-190.
QueryLookups ==
    /\ qpc = "lookups"
    /\ nodes' = NodeLookup(data)
    /\ way_data' = WayLookup(data, <<>>)
    /\ relation_way_ids' = {}
    /\ results' = <<>>
    /\ rel_idx' = 0
    /\ way_idx' = 0
    /\ qpc' = AfterRelation(0, data, WayLookup(data, <<>>))
    /\ UNCHANGED <<data, radius_m, center_lat, center_lon, simplify_epsilon>>
    /\ UNCHANGED <<way_segments, asmLocals, dpVars, valVars>>

\* Line 202, with the unspecified role "" left out.
IsOuterWayNamedOnly(member) ==
    member.type = "way" /\ Get(member, "role", None) = "outer"

\* Line 202: member["type"] == "way" and member.get("role") in ("outer", "").
IsOuterWay(member) ==
    member.type = "way" /\ Get(member, "role", None) \in {"outer", ""}

\* Lines 203-204: the way ids of the outer members.
OuterRefs(rel) ==
    LET members == Get(rel, "members", <<>>)
    IN  { members[i].ref : i \in { j \in 1..Len(members) : IsOuterWay(members[j]) } }

\* Line 204: relation_way_ids.add(way_id), before the test of line 205.
ConsumedRefs(rel, wd) == OuterRefs(rel)

\* Lines 200-206: outer_ways, in member order.
OuterWays(rel, wd) ==
    LET members == Get(rel, "members", <<>>)
        known == SelectSeq(members,
                     LAMBDA m : IsOuterWay(m) /\ m.ref \in WayIds(wd))
    IN  [i \in 1..Len(known) |-> <<known[i].ref, WayOf(wd, known[i].ref).nodes>>]

\* Lines 191-210: the next relation, up to the call of _assemble_multipolygon.
QueryRelation ==
    /\ qpc = "relations"
    /\ LET rel == Relations(data)[rel_idx + 1]
       IN  /\ relation_way_ids' = relation_way_ids \cup ConsumedRefs(rel, way_data)
           /\ way_segments' = OuterWays(rel, way_data)
    /\ segments' = <<>>
    /\ used' = {}
    /\ ring_points' = <<>>
    /\ current_end' = 0
    /\ start_node' = 0
    /\ attempts' = 0
    /\ assembled' = <<>>
    /\ apc' = "convert"
    /\ qpc' = "assembling"
    /\ UNCHANGED <<data, radius_m, way_data, results, rel_idx, way_idx>>
    /\ UNCHANGED <<center_lat, center_lon, nodes, simplify_epsilon, dpVars, valVars>>

\* Lines 213-216 and 251-254: some point within radius_m * 1.2 of the origin.
InRange(pts, radius) ==
    \E i \in 1..Len(pts) :
        25 * (pts[i][1] * pts[i][1] + pts[i][2] * pts[i][2]) <= 36 * radius * radius

\* round(v, 1): plane units (2 cm) to the nearest decimetre.
Round1(v) == (v + 2) \div 5

\* Lines 223 and 265.
RoundedPoints(pts) == [i \in 1..Len(pts) |-> [x |-> Round1(pts[i][1]), y |-> Round1(pts[i][2])]]

\* Lines 195-197 and 222: the relation's name.
RelationName(rel) ==
    LET tags == Get(rel, "tags", <<>>)
        rel_name == Get(tags, "name", "")
        rel_type == Get(tags, "water", Get(tags, "natural", "water"))
    IN  IF rel_name # "" THEN <<rel_name>> ELSE <<rel_type, "_", rel.id>>

\* Lines 211-225: the features of one relation's rings, in ring order.
RECURSIVE RelationFeatures(_, _, _, _)
RelationFeatures(rel, rings, i, radius) ==
    IF i > Len(rings)
    THEN <<>>
    ELSE (IF InRange(rings[i][1], radius)
          THEN << [id |-> <<"relation", rel.id, i - 1>>,
                   name |-> RelationName(rel),
                   points |-> RoundedPoints(rings[i][1]),
                   closed |-> rings[i][2]] >>
          ELSE <<>>)
         \o RelationFeatures(rel, rings, i + 1, radius)

\* Lines 211-225: after _assemble_multipolygon has returned.
QueryEmitRings ==
    /\ qpc = "assembling"
    /\ apc = "done"
    /\ results' = results \o
           RelationFeatures(Relations(data)[rel_idx + 1], assembled, 1, radius_m)
    /\ rel_idx' = rel_idx + 1
    /\ qpc' = AfterRelation(rel_idx + 1, data, way_data)
    /\ apc' = "idle"
    /\ UNCHANGED <<data, radius_m, way_data, relation_way_ids, way_idx>>
    /\ UNCHANGED <<asmArgs, segments, used, ring_points, current_end, start_node,
                   attempts, assembled, dpVars, valVars>>

\* Line 243: closed.
StandaloneClosed(way_nodes) ==
    way_nodes[1] = Last(way_nodes) /\ Len(way_nodes) > 3

\* Lines 258-264: the way's name.
WayName(w) ==
    LET name == Get(w.tags, "name", "")
        water_type == Get(w.tags, "water", Get(w.tags, "natural", "shoreline"))
    IN  IF name # "" THEN <<name>> ELSE <<water_type, "_", w.id>>

\* Lines 229-267: the feature of one way of way_data, or none.
StandaloneFeature(w, consumed, nds, olat, olon, eps, radius) ==
    LET raw_points == ProjectNodes(w.nodes, nds, olat, olon)
        simple == _douglas_peucker(raw_points, eps)
    IN  IF w.id \in consumed THEN <<>>
        ELSE IF Len(raw_points) < 3 THEN <<>>
        ELSE IF Len(simple) < 3 THEN <<>>
        ELSE IF ~InRange(simple, radius) THEN <<>>
        ELSE << [id |-> <<"way", w.id>>,
                 name |-> WayName(w),
                 points |-> RoundedPoints(simple),
                 closed |-> StandaloneClosed(w.nodes)] >>

\* Lines 228-267: the next way of way_data.
QueryStandaloneWay ==
    /\ qpc = "ways"
    /\ results' = results \o
           StandaloneFeature(way_data[way_idx + 1], relation_way_ids, nodes,
                             center_lat, center_lon, simplify_epsilon, radius_m)
    /\ way_idx' = way_idx + 1
    /\ qpc' = IF way_idx + 1 < Len(way_data) THEN "ways" ELSE "done"
    /\ UNCHANGED <<data, radius_m, way_data, relation_way_ids, rel_idx>>
    /\ UNCHANGED <<asmVars, dpVars, valVars>>

(***************************************************************************)
(* Spec: query_water_features on a response that holds the nodes of        *)
(* NodeTable, at most MaxWays of the ways of QueryWays and at most         *)
(* MaxRelations of the relations of QueryRelations.                        *)
(***************************************************************************)
MaxWays == 3
MaxRelations == 2

QueryWays ==
    { [type |-> "way", id |-> 101, nodes |-> <<1, 2, 3>>,
       tags |-> [natural |-> "water"]],
      [type |-> "way", id |-> 102, nodes |-> <<3, 4, 1>>],
      [type |-> "way", id |-> 103, nodes |-> <<1, 2, 3, 4, 1>>,
       tags |-> [name |-> "Pond", natural |-> "water"]],
      [type |-> "way", id |-> 104, nodes |-> <<7, 8, 10>>,
       tags |-> [natural |-> "coastline"]],
      [type |-> "way", id |-> 105, nodes |-> <<1, 6, 2>>,
       tags |-> [waterway |-> "riverbank"]],
      [type |-> "way", id |-> 106, nodes |-> <<9, 1, 2, 3, 9>>,
       tags |-> [water |-> "lake", natural |-> "water"]],
      [type |-> "way", id |-> 107, nodes |-> <<1, 4, 3>>,
       tags |-> [natural |-> "water"]] }

QueryRelations ==
    { [type |-> "relation", id |-> 201,
       tags |-> [name |-> "Lake", natural |-> "water"],
       members |-> << [type |-> "way", ref |-> 101, role |-> "outer"],
                      [type |-> "way", ref |-> 102, role |-> "outer"] >>],
      [type |-> "relation", id |-> 202,
       tags |-> [natural |-> "water"],
       members |-> << [type |-> "way", ref |-> 101, role |-> ""],
                      [type |-> "way", ref |-> 102, role |-> "inner"] >>],
      [type |-> "relation", id |-> 203,
       tags |-> [water |-> "river", natural |-> "water"],
       members |-> << [type |-> "way", ref |-> 105, role |-> "outer"] >>],
      [type |-> "relation", id |-> 204,
       tags |-> [natural |-> "water"],
       members |-> << [type |-> "way", ref |-> 104, role |-> "outer"],
                      [type |-> "way", ref |-> 103] >>],
      [type |-> "relation", id |-> 205,
       members |-> << [type |-> "node", ref |-> 103, role |-> "outer"],
                      [type |-> "way", ref |-> 199, role |-> "outer"],
                      [type |-> "way", ref |-> 102, role |-> ""] >>],
      [type |-> "relation", id |-> 206],
      [type |-> "relation", id |-> 207,
       tags |-> [name |-> ""],
       members |-> << [type |-> "way", ref |-> 103, role |-> "outer"],
                      [type |-> "way", ref |-> 106, role |-> "outer"] >>],
      [type |-> "relation", id |-> 208,
       tags |-> [water |-> "reservoir"],
       members |-> << [type |-> "way", ref |-> 107, role |-> "outer"],
                      [type |-> "way", ref |-> 101, role |-> "outer"] >>] }

Radii == { 50, 200 }

\* The elements of a set of elements, by ascending id.
RECURSIVE ById(_)
ById(S) ==
    IF S = {}
    THEN <<>>
    ELSE LET first == CHOOSE e \in S : \A f \in S : e.id <= f.id
         IN  <<first>> \o ById(S \ {first})

NodeElements ==
    ById({ [type |-> "node", id |-> nid, lat |-> NodeTable[nid][1], lon |-> NodeTable[nid][2]]
           : nid \in DOMAIN NodeTable })

Init ==
    /\ DPIdle
    /\ ValIdle
    /\ \E ws \in SUBSET QueryWays, rs \in SUBSET QueryRelations :
          /\ Cardinality(ws) <= MaxWays
          /\ Cardinality(rs) <= MaxRelations
          /\ data = NodeElements \o ById(ws) \o ById(rs)
    /\ \E c \in Centers : center_lat = c[1] /\ center_lon = c[2]
    /\ radius_m \in Radii
    /\ simplify_epsilon \in SimplifyEpsilons
    /\ nodes = <<>>
    /\ way_data = <<>>
    /\ relation_way_ids = {}
    /\ results = <<>>
    /\ rel_idx = 0
    /\ way_idx = 0
    /\ qpc = "lookups"
    /\ way_segments = <<>>
    /\ segments = <<>>
    /\ used = {}
    /\ ring_points = <<>>
    /\ current_end = 0
    /\ start_node = 0
    /\ attempts = 0
    /\ assembled = <<>>
    /\ apc = "idle"

Next ==
    \/ QueryLookups
    \/ QueryRelation
    \/ AsmConvert
    \/ AsmStartRing
    \/ AsmExtend
    \/ AsmFinishRing
    \/ QueryEmitRings
    \/ QueryStandaloneWay

Spec == Init /\ [][Next]_vars

(***************************************************************************)
(* Properties of query_water_features (Spec).                              *)
(***************************************************************************)
ElementsOfType(t) == SelectSeq(data, LAMBDA el : el.type = t)

\* The way ids listed, in any relation of the response, as a member of type
\* way with role "outer" or "".
ListedAsOuter ==
    { ref \in UNION { { m.ref : m \in Range(Get(rel, "members", <<>>)) }
                      : rel \in Range(ElementsOfType("relation")) } :
        \E rel \in Range(ElementsOfType("relation")) :
            \E m \in Range(Get(rel, "members", <<>>)) :
                /\ m.ref = ref
                /\ m.type = "way"
                /\ "role" \in DOMAIN m
                /\ (m.role = "outer" \/ m.role = "") }

\* C1: no way that is listed as a member of type way with role "outer" or ""
\* in any relation is emitted as a standalone feature way_{wayId}, whether or
\* not the relation's rings survive simplification and the range filter.
C1_ConsumedWaysNotStandalone ==
    \A i \in 1..Len(results) :
        results[i].id[1] = "way" => results[i].id[2] \notin ListedAsOuter

\* C1's case: a relation whose only ring is out of range and emits nothing; its
\* outer way is not emitted on its own either, while a way the relation lists
\* without a role is.
C1_Witness ==
    /\ qpc = "done"
    /\ 104 \in ListedAsOuter
    /\ 104 \in WayIds(way_data)
    /\ Len(results) = 1
    /\ results[1].id = <<"way", 103>>

\* The plane points of a way element's known nodes.
WayPoints(w) == ProjectNodes(w.nodes, NodeLookup(data), center_lat, center_lon)

\* The points of the ring that way a followed by way b makes.
RingOfTwo(a, b) ==
    IF b.nodes[1] = Last(a.nodes)
    THEN WayPoints(a) \o Tail(WayPoints(b))
    ELSE WayPoints(a) \o Reverse(Front(WayPoints(b)))

Survives(pts) ==
    /\ Len(_douglas_peucker(pts, simplify_epsilon)) >= 3
    /\ InRange(_douglas_peucker(pts, simplify_epsilon), radius_m)

\* One relation whose two outer member ways join end-to-end into a ring, and
\* one way that belongs to no relation; ring and way are within range and keep
\* at least 3 points after simplification.
RingAndWayScenario ==
    LET rels == ElementsOfType("relation")
        ways == ElementsOfType("way")
    IN  /\ Len(rels) = 1
        /\ Len(ways) = 3
        /\ "members" \in DOMAIN rels[1]
        /\ Len(rels[1].members) = 2
        /\ \A m \in Range(rels[1].members) :
              m.type = "way" /\ "role" \in DOMAIN m /\ m.role = "outer"
        /\ \E i, j, k \in 1..3 :
              /\ {i, j, k} = 1..3
              /\ ways[i].id = rels[1].members[1].ref
              /\ ways[j].id = rels[1].members[2].ref
              /\ \/ (Last(ways[i].nodes) = ways[j].nodes[1]
                        /\ Last(ways[j].nodes) = ways[i].nodes[1])
                 \/ (Last(ways[i].nodes) = Last(ways[j].nodes)
                        /\ ways[j].nodes[1] = ways[i].nodes[1])
              /\ Survives(RingOfTwo(ways[i], ways[j]))
              /\ Survives(WayPoints(ways[k]))

\* C2: in that scenario query_water_features returns exactly two features: one
\* whose id starts with relation_ and has closed = true, one whose id starts
\* with way_; the member ways of the relation are no further features.
C2_RingAndWay ==
    (qpc = "done" /\ RingAndWayScenario) =>
        /\ Len(results) = 2
        /\ \E i, j \in 1..2 :
              /\ i # j
              /\ results[i].id[1] = "relation"
              /\ results[i].closed = TRUE
              /\ results[j].id[1] = "way"
              /\ results[j].id[2] \notin ListedAsOuter

\* C2's case: the relation's second way is joined backwards.
C2_Witness ==
    /\ qpc = "done"
    /\ RingAndWayScenario
    /\ ElementsOfType("relation")[1].id = 208
    /\ Len(results) = 2

(***************************************************************************)
(* validate_radarloc, radarloc_builder.py lines 7-81.  A document is a     *)
(* function from keys to values, a warning a tuple of the message and the  *)
(* value the message formats, and largest_polygon_km2 a whole number of    *)
(* hundredths of a square kilometre (the code rounds it to 2 decimals).    *)
(***************************************************************************)
\* Lines 18-24, with the feature count entered into the statistics first.
EmptyReportWithCount ==
    [valid |-> FALSE,
     warnings |-> << <<"No coastlines found">> >>,
     stats |-> [total_features |-> 0]]

\* Lines 18-24: the report of a document without coastlines.
EmptyReport ==
    [valid |-> FALSE,
     warnings |-> << <<"No coastlines found">> >>,
     stats |-> <<>>]

\* Line 27: sum(1 for c in coastlines if c.get('closed', False)).
RECURSIVE ClosedCount(_)
ClosedCount(coastlines) ==
    IF coastlines = <<>>
    THEN 0
    ELSE (IF Get(coastlines[1], "closed", FALSE) THEN 1 ELSE 0)
             + ClosedCount(Tail(coastlines))

\* Line 38: sum(len(c.get('points', [])) for c in coastlines).
RECURSIVE TotalPoints(_)
TotalPoints(coastlines) ==
    IF coastlines = <<>>
    THEN 0
    ELSE Len(Get(coastlines[1], "points", <<>>)) + TotalPoints(Tail(coastlines))

\* Lines 53-58 without the wraparound j = (i + 1) % n: the last edge is left out.
ShoelaceOpenChain(pts) ==
    LET n == Len(pts)
        term(i) == pts[i].x * pts[i + 1].y - pts[i + 1].x * pts[i].y
        RECURSIVE total(_, _)
        total(lo, hi) ==
            IF lo > hi THEN 0
            ELSE IF lo = hi THEN term(lo)
            ELSE total(lo, (lo + hi) \div 2) + total(((lo + hi) \div 2) + 1, hi)
    IN  total(1, n - 1)

\* Lines 53-58: the shoelace sum, twice the signed area in square metres.
Shoelace(pts) ==
    LET n == Len(pts)
        j(i) == (i % n) + 1
        term(i) == pts[i].x * pts[j(i)].y - pts[j(i)].x * pts[i].y
        \* the sum of term(lo), ..., term(hi), by halves
        RECURSIVE total(_, _)
        total(lo, hi) ==
            IF lo > hi THEN 0
            ELSE IF lo = hi THEN term(lo)
            ELSE total(lo, (lo + hi) \div 2) + total(((lo + hi) \div 2) + 1, hi)
    IN  total(1, n)

\* Lines 45-60: largest_area, as twice the area in square metres.
RECURSIVE LargestShoelace(_, _)
LargestShoelace(coastlines, largest) ==
    IF coastlines = <<>>
    THEN largest
    ELSE LET coast == coastlines[1]
             pts == Get(coast, "points", <<>>)
             area == Abs(Shoelace(pts))
         IN  IF ~Get(coast, "closed", FALSE) \/ Len(pts) < 3
             THEN LargestShoelace(Tail(coastlines), largest)
             ELSE LargestShoelace(Tail(coastlines),
                                  IF area > largest THEN area ELSE largest)

\* Line 62: round(largest_area, 2), from twice the area in square metres to
\* hundredths of a square kilometre (20000 to the hundredth).  At an exact half
\* the code rounds the binary double nearest to the quotient, which lies on
\* one side or the other: both neighbours are possible.
Round2(twice_area) ==
    LET q == twice_area \div 20000
        r == twice_area % 20000
    IN  IF r < 10000 THEN {q}
        ELSE IF r > 10000 THEN {q + 1}
        ELSE {q, q + 1}

\* Line 69, with the bounds of the longitude.
LatitudeValidAsLongitude(lat) == -180 <= lat /\ lat <= 180

\* Line 69.
LatitudeValid(lat) == -90 <= lat /\ lat <= 90

\* Line 72, with the bounds of the latitude.
LongitudeValidAsLatitude(lon) == -90 <= lon /\ lon <= 90

\* Line 72.
LongitudeValid(lon) == -180 <= lon /\ lon <= 180

\* Line 78.
RangeUnusual(range_nm) == range_nm <= 0 \/ range_nm > 50

\* Lines 26-81: the report of a document with coastlines; `largest` is the
\* rounded largest area.
FullReport(d, largest) ==
    LET coastlines == d.coastlines
        closed_count == ClosedCount(coastlines)
        open_count == Len(coastlines) - closed_count
        total_points == TotalPoints(coastlines)
        meta == Get(d, "metadata", <<>>)
        lat == Get(meta, "center_lat", 0)
        lon == Get(meta, "center_lon", 0)
        range_nm == Get(meta, "range_nm", 0)
    IN  [valid |-> LatitudeValid(lat) /\ LongitudeValid(lon),
         warnings |->
             (IF closed_count = 0
              THEN << <<"No closed polygons - terrain may not generate correctly">> >>
              ELSE <<>>)
             \o (IF total_points < 100
                 THEN << <<"Low vertex count", total_points>> >> ELSE <<>>)
             \o (IF ~LatitudeValid(lat)
                 THEN << <<"Invalid latitude", lat>> >> ELSE <<>>)
             \o (IF ~LongitudeValid(lon)
                 THEN << <<"Invalid longitude", lon>> >> ELSE <<>>)
             \o (IF RangeUnusual(range_nm)
                 THEN << <<"Unusual range", range_nm>> >> ELSE <<>>),
         stats |-> [total_features |-> Len(coastlines),
                    closed_polygons |-> closed_count,
                    open_segments |-> open_count,
                    total_vertices |-> total_points,
                    largest_polygon_km2 |-> largest]]

\* Lines 20-21: doc.get('coastlines', []), and `not coastlines`.
NoCoastlines(d) == Get(d, "coastlines", <<>>) = <<>>

\* validate_radarloc.
Validate ==
    /\ vpc = "call"
    /\ IF NoCoastlines(doc)
       THEN result' = EmptyReport
       ELSE \E largest \in Round2(LargestShoelace(doc.coastlines, 0)) :
                result' = FullReport(doc, largest)
    /\ vpc' = "done"
    /\ UNCHANGED <<doc, dpVars, asmVars, qVars>>

(***************************************************************************)
(* SpecVal: validate_radarloc on a document with or without coastlines (at *)
(* most MaxFeatures of the features of Features) and with or without       *)
(* metadata.                                                               *)
(***************************************************************************)
MaxFeatures == 2

Pt(x, y) == [x |-> x, y |-> y]

Features ==
    { \* the square of one square kilometre, closed
      [id |-> "f1", closed |-> TRUE,
       points |-> <<Pt(0, 0), Pt(1000, 0), Pt(1000, 1000), Pt(0, 1000)>>],
      \* a larger square, not closed
      [id |-> "f2", closed |-> FALSE,
       points |-> <<Pt(0, 0), Pt(3000, 0), Pt(3000, 3000), Pt(0, 3000)>>],
      \* a triangle of 0.005 square kilometre
      [id |-> "f3", closed |-> TRUE,
       points |-> <<Pt(0, 0), Pt(100, 0), Pt(0, 100)>>],
      \* two points, closed
      [id |-> "f4", closed |-> TRUE,
       points |-> <<Pt(0, 0), Pt(5000, 5000)>>],
      \* a square without the closed key
      [id |-> "f5",
       points |-> <<Pt(0, 0), Pt(2000, 0), Pt(2000, 2000), Pt(0, 2000)>>],
      \* a rectangle of 0.013 square kilometre, clockwise, away from the origin
      [id |-> "f6", closed |-> TRUE,
       points |-> <<Pt(50, 50), Pt(50, 150), Pt(180, 150), Pt(180, 50)>>],
      \* a hundred points
      [id |-> "f7", closed |-> TRUE,
       points |-> [i \in 1..100 |-> Pt(10 * i, (i % 5) * (i % 3))]],
      \* no points key
      [id |-> "f8", closed |-> TRUE] }

\* The values a metadata key takes when it is there.
MetaValues(key) ==
    CASE key = "center_lat" -> { -91, 0, 90, 95 }
      [] key = "center_lon" -> { -181, 0, 180 }
      [] key = "range_nm" -> { 0, 6, 50, 51 }

EmptyDict == [k \in {} |-> 0]

\* Every metadata mapping: each key absent, or there with one of its values.
Metadatas ==
    UNION { { m \in [keys -> UNION { MetaValues(k) : k \in keys }] :
                \A k \in keys : m[k] \in MetaValues(k) }
            : keys \in SUBSET {"center_lat", "center_lon", "range_nm"} }

Documents ==
    { c @@ m :
        c \in {EmptyDict} \cup { "coastlines" :> f : f \in SeqsUpTo(Features, MaxFeatures) },
        m \in {EmptyDict} \cup { "metadata" :> md : md \in Metadatas } }

InitVal ==
    /\ DPIdle
    /\ AsmIdle
    /\ QueryIdle
    /\ doc \in Documents
    /\ result = <<>>
    /\ vpc = "call"

NextVal == Validate

SpecVal == InitVal /\ [][NextVal]_vars

(***************************************************************************)
(* Properties of validate_radarloc (SpecVal).                              *)
(***************************************************************************)
DocCoastlines == IF "coastlines" \in DOMAIN doc THEN doc.coastlines ELSE <<>>

DocMeta(key) ==
    IF "metadata" \in DOMAIN doc /\ key \in DOMAIN doc.metadata
    THEN doc.metadata[key]
    ELSE 0

LatOutside == DocMeta("center_lat") < -90 \/ DocMeta("center_lat") > 90

HasWarning(w) == \E i \in 1..Len(result.warnings) : result.warnings[i] = w

\* C8 as stated: for every document whose center_lat lies outside [-90, 90],
\* valid = false and a warning names the bad latitude.
C8_AsStated ==
    (vpc = "done" /\ LatOutside) =>
        /\ result.valid = FALSE
        /\ HasWarning(<<"Invalid latitude", DocMeta("center_lat")>>)

\* C8, amended: for every document whose center_lat lies outside [-90, 90],
\* valid = false; when the feature list is not empty a warning names the bad
\* latitude, and when it is empty or absent the only warning is "No coastlines
\* found".
C8_BadLatitudeInvalid ==
    (vpc = "done" /\ LatOutside) =>
        /\ result.valid = FALSE
        /\ DocCoastlines # <<>> =>
              HasWarning(<<"Invalid latitude", DocMeta("center_lat")>>)
        /\ DocCoastlines = <<>> =>
              result.warnings = << <<"No coastlines found">> >>

\* C8's case: center_lat = 95, everything else in order.
C8_Witness ==
    /\ vpc = "done"
    /\ DocMeta("center_lat") = 95
    /\ DocMeta("center_lon") = 0
    /\ DocMeta("range_nm") = 6
    /\ Len(DocCoastlines) = 2
    /\ result.valid = FALSE
    /\ HasWarning(<<"Invalid latitude", 95>>)

\* Twice the area of a polygon in square metres, by the formula
\* | sum of x[i] * (y[i+1] - y[i-1]) |, indices around the ring.
TwiceArea(pts) ==
    LET n == Len(pts)
        next(i) == IF i = n THEN 1 ELSE i + 1
        prev(i) == IF i = 1 THEN n ELSE i - 1
        term(i) == pts[i].x * (pts[next(i)].y - pts[prev(i)].y)
        RECURSIVE total(_, _)
        total(lo, hi) ==
            IF lo > hi THEN 0
            ELSE IF lo = hi THEN term(lo)
            ELSE total(lo, (lo + hi) \div 2) + total(((lo + hi) \div 2) + 1, hi)
    IN  Abs(total(1, n))

Contributes(c) ==
    /\ "closed" \in DOMAIN c
    /\ c.closed = TRUE
    /\ "points" \in DOMAIN c
    /\ Len(c.points) >= 3

\* Twice the largest area among the closed features of at least 3 points, 0
\* when there is none.
LargestClosedTwiceArea ==
    LET areas == { TwiceArea(DocCoastlines[i].points) :
                     i \in { k \in 1..Len(DocCoastlines) : Contributes(DocCoastlines[k]) } }
                 \cup {0}
    IN  CHOOSE a \in areas : \A b \in areas : b <= a

UnitSquare ==
    [id |-> "f1", closed |-> TRUE,
     points |-> <<Pt(0, 0), Pt(1000, 0), Pt(1000, 1000), Pt(0, 1000)>>]

\* C9 as stated: largest_polygon_km2 equals the largest shoelace area of the
\* closed features of at least 3 points, divided by 1e6.
C9_AsStated ==
    (vpc = "done" /\ DocCoastlines # <<>>) =>
        result.stats.largest_polygon_km2 * 20000 = LargestClosedTwiceArea

\* C9, amended: for every document with a non-empty feature list,
\* largest_polygon_km2 is the largest shoelace area of the closed features of
\* at least 3 points, divided by 1e6 and rounded to 2 decimals (0 when there is
\* no such feature); features with closed = false never contribute, and the
\* closed square (0,0),(1000,0),(1000,1000),(0,1000) alone yields 1.0.
C9_LargestAreaRounded ==
    (vpc = "done" /\ DocCoastlines # <<>>) =>
        /\ Abs(result.stats.largest_polygon_km2 * 20000 - LargestClosedTwiceArea) <= 10000
        /\ LargestClosedTwiceArea = 0 => result.stats.largest_polygon_km2 = 0
        /\ DocCoastlines = <<UnitSquare>> => result.stats.largest_polygon_km2 = 100

\* C9's case: a closed rectangle of 0.013 km2 beside a larger square that is
\* not closed: the statistic is 0.01.
C9_Witness ==
    /\ vpc = "done"
    /\ Len(DocCoastlines) = 2
    /\ DocCoastlines[1].id = "f2"
    /\ DocCoastlines[2].id = "f6"
    /\ result.stats.largest_polygon_km2 = 1

\* C10: for every document whose feature list is empty or absent,
\* validate_radarloc returns valid = false, exactly one warning, "No coastlines
\* found", and empty statistics, whatever the other rules would have said.
C10_EmptyShortCircuits ==
    (vpc = "done" /\ DocCoastlines = <<>>) =>
        /\ result.valid = FALSE
        /\ result.warnings = << <<"No coastlines found">> >>
        /\ DOMAIN result.stats = {}

\* C10's case: no feature list, and a latitude, a longitude and a range that
\* would each have drawn a warning.
C10_Witness ==
    /\ vpc = "done"
    /\ "coastlines" \notin DOMAIN doc
    /\ DocMeta("center_lat") = 95
    /\ DocMeta("center_lon") = -181
    /\ DocMeta("range_nm") = 51
    /\ Len(result.warnings) = 1

\* The features of the document with closed = true, and the points of all
\* its features.
DocClosedFeatures ==
    { i \in 1..Len(DocCoastlines) :
        "closed" \in DOMAIN DocCoastlines[i] /\ DocCoastlines[i].closed }

RECURSIVE DocVertices(_)
DocVertices(k) ==
    IF k = 0
    THEN 0
    ELSE DocVertices(k - 1)
           + (IF "points" \in DOMAIN DocCoastlines[k]
              THEN Len(DocCoastlines[k].points) ELSE 0)

LonOutside == DocMeta("center_lon") < -180 \/ DocMeta("center_lon") > 180

\* C13: for every document with a non-empty feature list, valid = false if
\* and only if center_lat is outside [-90, 90] or center_lon is outside
\* [-180, 180]; the warning of no closed polygons, the warning of a low vertex
\* count (fewer than 100 in total) and the warning of an unusual range
\* (range_nm <= 0 or > 50) are each given exactly in their case, and none of
\* them bears on valid.
C13_ValidIffCoordinatesInRange ==
    (vpc = "done" /\ DocCoastlines # <<>>) =>
        /\ (result.valid = FALSE) <=> (LatOutside \/ LonOutside)
        /\ result.valid \in BOOLEAN
        /\ HasWarning(<<"No closed polygons - terrain may not generate correctly">>)
              <=> (DocClosedFeatures = {})
        /\ HasWarning(<<"Low vertex count", DocVertices(Len(DocCoastlines))>>)
              <=> (DocVertices(Len(DocCoastlines)) < 100)
        /\ HasWarning(<<"Unusual range", DocMeta("range_nm")>>)
              <=> (DocMeta("range_nm") <= 0 \/ DocMeta("range_nm") > 50)

\* C13's case: coordinates on the edge of their ranges, and all three
\* warnings at once: no closed feature, 4 vertices, a range of 51.
C13_Witness ==
    /\ vpc = "done"
    /\ DocCoastlines # <<>>
    /\ DocMeta("center_lat") = 90
    /\ DocMeta("center_lon") = 180
    /\ DocMeta("range_nm") = 51
    /\ DocClosedFeatures = {}
    /\ Len(result.warnings) = 3
    /\ result.valid = TRUE

\* Every node id that a way of the response refers to is a node of the
\* response.
AllNodesPresent ==
    LET node_ids == { e.id : e \in Range(ElementsOfType("node")) }
    IN  \A w \in Range(ElementsOfType("way")) :
            \A k \in 1..Len(w.nodes) : w.nodes[k] \in node_ids

\* C14: when every node id referenced by a way is present in the node set,
\* every feature emitted with closed = true, from a relation or from a
\* standalone way, has at least 3 points and its first point equals its last.
C14_ClosedFeaturesReturn ==
    AllNodesPresent =>
        \A i \in 1..Len(results) :
            results[i].closed =>
                /\ Len(results[i].points) >= 3
                /\ results[i].points[1] = Last(results[i].points)

\* C14's case: all nodes present, and the result holds a closed feature of a
\* relation, assembled with a segment reversed, and a closed standalone way.
C14_Witness ==
    /\ qpc = "done"
    /\ AllNodesPresent
    /\ \E i, j \in 1..Len(results) :
          /\ results[i].closed /\ results[i].id[1] = "relation" /\ results[i].id[2] = 208
          /\ results[j].closed /\ results[j].id[1] = "way"

====
